---- MODULE Spec2Model ----
(***************************************************************************)
(* Model of src/ams_report.py, class AWSUtilizationConsolidator.           *)
(*                                                                         *)
(* Five specifications share the variables below:                          *)
(*   Spec       process_all_environments, create_consolidated_workbook and *)
(*              the control flow of consolidate_environment_data           *)
(*   SpecMerge  merge_data_horizontally on concrete small tables           *)
(*   SpecAgg    consolidate_environment_data on concrete small tables      *)
(*   SpecHl     find_columns_to_highlight / apply_conditional_formatting   *)
(*   SpecDates  get_date_folders on concrete folder names                  *)
(***************************************************************************)
EXTENDS Integers, Sequences, FiniteSets, TLC

VARIABLES
    \* ---- process_all_environments / create_consolidated_workbook ----
    pc,                      \* position of the run
    date_folders,            \* self.date_folders (descending by parsed date)
    envIdx,                  \* index of `environment` in self.environments
    dirExists,               \* file system: date label -> env directory exists
    anyDir,                  \* file system: env -> some date folder holds its directory
    dateIdx,                 \* index of `date_folder` in consolidate_environment_data
    all_environment_data,    \* date labels whose merged table was not empty
    attempt,                 \* loop variable of the retry loop
    writeLog,                \* events of the current environment's write loop
    called,                  \* environments create_consolidated_workbook was called for
    workbooks,               \* environments whose workbook was written
    abandoned,               \* environments whose write was given up
    processed_environments,  \* the list built by process_all_environments
    result,                  \* what process_all_environments returned
    \* ---- read_and_merge_excel_files / merge_data_horizontally ----
    mpc,                     \* position inside read_and_merge_excel_files
    dataframes,              \* the cleaned tables read so far
    merged_df,               \* the accumulator, then the returned table
    prev_df,                 \* the accumulator before the latest merge step
    step,                    \* loop variable i of merge_data_horizontally
    \* ---- consolidate_environment_data on concrete tables ----
    merged_tables,           \* <<date label, table>> as read_and_merge_excel_files returned them
    date_sheets_data,        \* <<date label, table>> in insertion order
    combined_data,           \* combined_data after sort_values (line 262)
    \* ---- find_columns_to_highlight / apply_conditional_formatting ----
    hpc,                     \* position: sheet not yet formatted, or formatted
    hl_df,                   \* the df argument, written to the sheet
    hl_input,                \* the df argument as it was passed in
    hl_env,                  \* the environment argument
    highlight_columns,       \* what find_columns_to_highlight returned
    marked,                  \* the cells <<row, column>> the sheet shows highlighted
    \* ---- get_date_folders ----
    gpc,                     \* position inside get_date_folders
    base_path,               \* file system: does the base path exist, and its entries
    itemIdx,                 \* index of `item` in os.listdir(self.base_path)
    found                    \* the local list date_folders, then the value returned

runVars == <<pc, date_folders, envIdx, dirExists, anyDir, dateIdx,
             all_environment_data, attempt, writeLog, called, workbooks,
             abandoned, processed_environments, result>>

mergeVars == <<mpc, dataframes, merged_df, prev_df, step>>

aggVars == <<merged_tables, date_sheets_data, combined_data>>

hlVars == <<hpc, hl_df, hl_input, hl_env, highlight_columns, marked>>

\* the variables of process_all_environments that consolidate_environment_data
\* does not use
runRest == <<envIdx, dirExists, anyDir, attempt, writeLog, called, workbooks,
             abandoned, processed_environments>>

dateVars == <<gpc, base_path, itemIdx, found>>

vars == <<runVars, mergeVars, aggVars, hlVars, dateVars>>

(***************************************************************************)
(* Bounds                                                                  *)
(***************************************************************************)
MaxDates == 2
MaxFiles == 2
MaxMergeFiles == 3
MaxTotalRows == 4

(***************************************************************************)
(* Generic helpers                                                         *)
(***************************************************************************)
Range(s) == {s[i] : i \in 1..Len(s)}

SeqsUpTo(S, n) == UNION {[1..k -> S] : k \in 0..n}

None == "None"

(***************************************************************************)
(* Date labels.  A label is <<month, day, year>>, the three numbers of the *)
(* folder name; datetime.strptime(x, '%m-%d-%Y') orders labels by          *)
(* (year, month, day).                                                     *)
(***************************************************************************)
DateUniverse == <<
    <<1, 15, 2025>>,
    <<2, 10, 2025>>,
    <<12, 1, 2024>>,
    <<11, 30, 2024>> >>

DateLabels == {DateUniverse[i] : i \in 1..(MaxDates + 1)}

strptime(x) == x[3] * 10000 + x[1] * 100 + x[2]

IsSortedDesc(s) ==
    \A i \in 1..(Len(s) - 1) : strptime(s[i]) >= strptime(s[i + 1])

NoRepeat(s) == \A i, j \in 1..Len(s) : i # j => s[i] # s[j]

\* every value get_date_folders can return for the folders of DateLabels
DateFolderLists ==
    {s \in SeqsUpTo(DateLabels, MaxDates) : NoRepeat(s) /\ IsSortedDesc(s)}

(***************************************************************************)
(* __init__                                                                *)
(***************************************************************************)
environments == <<"Patikar", "Batalan", "Shared_services", "Production">>

max_retries == 3

(***************************************************************************)
(* read_and_merge_excel_files, seen from the driver: a file is unreadable  *)
(* (pd.read_excel raises) or yields a table; hasRows says whether the      *)
(* table has rows, keyType is the dtype of its identifier column.          *)
(* pd.merge raises ValueError when the key columns of two tables with rows *)
(* have dtypes int64 and object.                                           *)
(***************************************************************************)
FileRecs ==
    {[readable |-> FALSE, hasRows |-> FALSE, keyType |-> "int"]}
    \cup {[readable |-> TRUE, hasRows |-> FALSE, keyType |-> "int"]}
    \cup [readable : {TRUE}, hasRows : {TRUE}, keyType : {"int", "str"}]

FileLists == SeqsUpTo(FileRecs, MaxFiles)

IsReadable(f) == f.readable

HasRowsFile(f) == f.hasRows

\* the try/except around pd.read_excel: unreadable files are skipped
ReadFiles(files) == SelectSeq(files, IsReadable)

\* merge_data_horizontally: the pd.merge of some step raises
MergeRaises(frames) ==
    LET withRows == SelectSeq(frames, HasRowsFile)
    IN  \E i \in 1..Len(withRows) : withRows[i].keyType # withRows[1].keyType

\* "raise", "empty" (DataFrame.empty) or "data"
ReadAndMerge(exists, files) ==
    LET frames == ReadFiles(files)
    IN  IF ~exists THEN "empty"
        ELSE IF Len(files) = 0 THEN "empty"
        ELSE IF Len(frames) = 0 THEN "empty"
        ELSE IF Len(frames) = 1
             THEN (IF frames[1].hasRows THEN "data" ELSE "empty")
        ELSE IF MergeRaises(frames) THEN "raise"
        ELSE IF \E i \in 1..Len(frames) : frames[i].hasRows
             THEN "data" ELSE "empty"


(***************************************************************************)
(* Tables (pandas DataFrames).  A table is [cols, rows]: cols the column   *)
(* names in order, rows the rows in order, each row a sequence of cells    *)
(* aligned with cols.  A cell is an integer; NaN is the missing value.     *)
(***************************************************************************)
NaN == -1

EmptyTable == [cols |-> <<>>, rows |-> <<>>]

NCols(t) == Len(t.cols)

NRows(t) == Len(t.rows)

\* DataFrame.empty: some axis has length 0
IsEmptyDf(t) == NCols(t) = 0 \/ NRows(t) = 0

\* `c in t.columns`
HasCol(t, c) == \E i \in 1..NCols(t) : t.cols[i] = c

\* position of the first column named c
ColIndex(t, c) ==
    CHOOSE i \in 1..NCols(t) :
        t.cols[i] = c /\ \A j \in 1..(i - 1) : t.cols[j] # c

Indices(n) == [i \in 1..n |-> i]

NaNs(n) == [i \in 1..n |-> NaN]

RECURSIVE ConcatAll(_)
ConcatAll(ss) ==
    IF ss = <<>> THEN <<>> ELSE Head(ss) \o ConcatAll(Tail(ss))

RECURSIVE SumSeq(_)
SumSeq(ns) == IF ns = <<>> THEN 0 ELSE Head(ns) + SumSeq(Tail(ns))

\* the columns at positions `keep`, in that order
SelectColumns(t, keep) ==
    [cols |-> [i \in 1..Len(keep) |-> t.cols[keep[i]]],
     rows |-> [r \in 1..NRows(t) |->
                  [i \in 1..Len(keep) |-> t.rows[r][keep[i]]]]]

\* df[name] = v: overwrite the column, or append it as the last column
SetColumn(t, name, v) ==
    IF HasCol(t, name)
    THEN [cols |-> t.cols,
          rows |-> [r \in 1..NRows(t) |->
                       [c \in 1..NCols(t) |->
                           IF t.cols[c] = name THEN v ELSE t.rows[r][c]]]]
    ELSE [cols |-> Append(t.cols, name),
          rows |-> [r \in 1..NRows(t) |-> Append(t.rows[r], v)]]

\* df.drop(columns=names, errors='ignore')
DropColumns(t, names) ==
    SelectColumns(t, SelectSeq(Indices(NCols(t)),
                               LAMBDA i : t.cols[i] \notin names))

(***************************************************************************)
(* clean_dataframe                                                         *)
(***************************************************************************)
clean_dataframe(df) ==
    LET columns_to_remove ==
            {df.cols[i] : i \in {j \in 1..NCols(df) :
                                    df.cols[j] \in {"Source_File", "Date_Folder"}}}
    IN  DropColumns(df, columns_to_remove)

(***************************************************************************)
(* pd.merge(left, right, on=key, how='outer', suffixes=('', suffix))       *)
(***************************************************************************)
\* names of the right table's columns in the result: a column the left
\* table has too (other than the key) gets the suffix; the left suffix is ''
RenamedRight(left, right, on, suffix) ==
    [c \in 1..NCols(right) |->
        IF right.cols[c] # on /\ HasCol(left, right.cols[c])
        THEN right.cols[c] \o suffix
        ELSE right.cols[c]]

\* positions of the right table's columns that are not the key
RightKept(right, on) ==
    SelectSeq(Indices(NCols(right)), LAMBDA c : right.cols[c] # on)

MergedColumns(left, right, on, suffix) ==
    LET renamed == RenamedRight(left, right, on, suffix)
        kept == RightKept(right, on)
    IN  left.cols \o [i \in 1..Len(kept) |-> renamed[kept[i]]]

\* the suffix makes a name that the result already has
SuffixClash(left, right, on, suffix) ==
    LET renamed == RenamedRight(left, right, on, suffix)
        kept == RightKept(right, on)
    IN  \E i \in 1..Len(kept) :
            /\ renamed[kept[i]] # right.cols[kept[i]]
            /\ \/ HasCol(left, renamed[kept[i]])
               \/ \E j \in 1..Len(kept) : j # i /\ renamed[kept[j]] = renamed[kept[i]]

KeysOf(t, on) == {t.rows[r][ColIndex(t, on)] : r \in 1..NRows(t)}

\* the order of the keys in the result: ascending, missing keys last
KeyLess(a, b) ==
    IF a = NaN THEN FALSE ELSE IF b = NaN THEN TRUE ELSE a < b

RECURSIVE SortKeys(_)
SortKeys(S) ==
    IF S = {} THEN <<>>
    ELSE LET m == CHOOSE x \in S : \A y \in S \ {x} : KeyLess(x, y)
         IN  <<m>> \o SortKeys(S \ {m})

RowsWithKey(t, on, k) ==
    SelectSeq(t.rows, LAMBDA row : row[ColIndex(t, on)] = k)

\* the rows of an inner join for key k: every left row with every right row
MatchedRows(left, right, on, k) ==
    LET L == RowsWithKey(left, on, k)
        R == RowsWithKey(right, on, k)
        kept == RightKept(right, on)
        strip(row) == [i \in 1..Len(kept) |-> row[kept[i]]]
    IN  [n \in 1..(Len(L) * Len(R)) |->
            L[((n - 1) \div Len(R)) + 1] \o strip(R[((n - 1) % Len(R)) + 1])]

JoinRowsForKey_Inner(left, right, on, k) == MatchedRows(left, right, on, k)

\* how='outer': a key of one side only keeps its rows, NaN on the other side
JoinRowsForKey(left, right, on, k) ==
    LET L == RowsWithKey(left, on, k)
        R == RowsWithKey(right, on, k)
        kept == RightKept(right, on)
        lk == ColIndex(left, on)
        strip(row) == [i \in 1..Len(kept) |-> row[kept[i]]]
    IN  IF L # <<>> /\ R # <<>> THEN MatchedRows(left, right, on, k)
        ELSE IF L # <<>>
             THEN [n \in 1..Len(L) |-> L[n] \o NaNs(Len(kept))]
        ELSE [n \in 1..Len(R) |->
                 [c \in 1..NCols(left) |-> IF c = lk THEN k ELSE NaN]
                 \o strip(R[n])]

pd_merge(left, right, on, suffix) ==
    LET keys == SortKeys(KeysOf(left, on) \cup KeysOf(right, on))
    IN  [cols |-> MergedColumns(left, right, on, suffix),
         rows |-> ConcatAll([i \in 1..Len(keys) |->
                                JoinRowsForKey(left, right, on, keys[i])])]

(***************************************************************************)
(* pd.concat([a, b], axis=1) of two tables with a fresh RangeIndex: rows   *)
(* are aligned by position, the shorter table is padded with NaN           *)
(***************************************************************************)
pd_concat_axis1(a, b) ==
    LET n == IF NRows(a) >= NRows(b) THEN NRows(a) ELSE NRows(b)
    IN  [cols |-> a.cols \o b.cols,
         rows |-> [r \in 1..n |->
                      (IF r <= NRows(a) THEN a.rows[r] ELSE NaNs(NCols(a)))
                      \o (IF r <= NRows(b) THEN b.rows[r] ELSE NaNs(NCols(b)))]]

(***************************************************************************)
(* merge_data_horizontally                                                 *)
(***************************************************************************)
IdentifierColumns ==
    <<"InstanceId", "Identifier", "DBInstanceIdentifier", "DBName", "InstanceName">>

\* lines 65-69: the first identifier both tables have, as a list of 0 or 1 names
common_cols(acc, df) ==
    LET hits == SelectSeq(IdentifierColumns,
                          LAMBDA col : HasCol(acc, col) /\ HasCol(df, col))
    IN  IF hits = <<>> THEN <<>> ELSE <<hits[1]>>

DupSuffix_NextIndex(i) == "_dup_" \o ToString(i + 1)

DupSuffix(i) == "_dup_" \o ToString(i)

\* lines 71-83: one iteration of the loop, i the loop variable
MergeOneStep(acc, df, i) ==
    IF common_cols(acc, df) # <<>>
    THEN pd_merge(acc, df, common_cols(acc, df)[1], DupSuffix(i))
    ELSE pd_concat_axis1(acc, df)

RemoveDuplicateColumns_Skip(t) == t

\* line 86: merged_df.loc[:, ~merged_df.columns.duplicated()]
RemoveDuplicateColumns(t) ==
    SelectColumns(t, SelectSeq(Indices(NCols(t)),
                               LAMBDA i : \A j \in 1..(i - 1) : t.cols[j] # t.cols[i]))

(***************************************************************************)
(* process_all_environments                                                *)
(***************************************************************************)
environment == environments[envIdx]

EnvExists_NoCheck(ex) == Len(date_folders) > 0

\* lines 353-358: the environment folder exists in some date
EnvExists(ex) == \E i \in 1..Len(date_folders) : ex[date_folders[i]]

\* the for loop moves to the next environment, or the function returns
NextEnvironment(processed) ==
    IF envIdx < Len(environments)
    THEN /\ envIdx' = envIdx + 1
         /\ pc' = "env_check"
         /\ result' = result
    ELSE /\ envIdx' = envIdx
         /\ pc' = "returned"
         /\ result' = processed

Start ==
    /\ UNCHANGED <<mergeVars, aggVars, hlVars, dateVars>>
    /\ pc = "start"
    /\ IF date_folders = <<>>
       THEN /\ pc' = "returned"
            /\ result' = None
       ELSE /\ pc' = "env_check"
            /\ result' = result
    /\ UNCHANGED <<date_folders, envIdx, dirExists, anyDir, dateIdx,
                   all_environment_data, attempt, writeLog, called, workbooks,
                   abandoned, processed_environments>>

EnvCheck ==
    /\ UNCHANGED <<mergeVars, aggVars, hlVars, dateVars>>
    /\ pc = "env_check"
    /\ \E ex \in [Range(date_folders) -> BOOLEAN] :
         /\ dirExists' = ex
         /\ anyDir' = [anyDir EXCEPT ![environment] =
                                IF \E d \in DOMAIN ex : ex[d] THEN "yes" ELSE "no"]
         /\ IF EnvExists(ex)
            THEN /\ called' = called \cup {environment}
                 /\ pc' = "read"
                 /\ UNCHANGED <<envIdx, result>>
            ELSE /\ called' = called
                 /\ NextEnvironment(processed_environments)
    /\ dateIdx' = 1
    /\ all_environment_data' = <<>>
    /\ attempt' = 0
    /\ writeLog' = <<>>
    /\ UNCHANGED <<date_folders, workbooks, abandoned, processed_environments>>

\* one iteration of the date loop of consolidate_environment_data; after the
\* last date, the `if not all_environment_data: return None` of line 254
ReadDate ==
    /\ UNCHANGED <<mergeVars, aggVars, hlVars, dateVars>>
    /\ pc = "read"
    /\ \E files \in FileLists :
         LET date_folder == date_folders[dateIdx]
             date_data == ReadAndMerge(dirExists[date_folder], files)
             collected == IF date_data = "data"
                          THEN Append(all_environment_data, date_folder)
                          ELSE all_environment_data
         IN  /\ dirExists[date_folder] \/ files = <<>>
             /\ IF date_data = "raise"
                THEN /\ pc' = "raised"
                     /\ UNCHANGED <<dateIdx, all_environment_data>>
                ELSE /\ all_environment_data' = collected
                     /\ IF dateIdx < Len(date_folders)
                        THEN /\ dateIdx' = dateIdx + 1
                             /\ pc' = "read"
                        ELSE /\ dateIdx' = dateIdx
                             /\ pc' = IF collected = <<>> THEN "append" ELSE "write"
    /\ UNCHANGED <<date_folders, envIdx, dirExists, anyDir, attempt, writeLog,
                   called, workbooks, abandoned, processed_environments, result>>

RetryAllowed_OffByOne(a) == a < max_retries

\* line 329: another attempt follows this PermissionError
RetryAllowed(a) == a < max_retries - 1

\* one pass through the try block of the retry loop
WriteAttempt ==
    /\ UNCHANGED <<mergeVars, aggVars, hlVars, dateVars>>
    /\ pc = "write"
    /\ \E outcome \in {"ok", "PermissionError", "Exception"} :
         /\ writeLog' = Append(writeLog, outcome)
         /\ IF outcome = "ok"
            THEN /\ workbooks' = workbooks \cup {environment}
                 /\ abandoned' = abandoned
                 /\ pc' = "append"
            ELSE IF outcome = "PermissionError" /\ RetryAllowed(attempt)
            THEN /\ pc' = "sleep"
                 /\ UNCHANGED <<workbooks, abandoned>>
            ELSE /\ abandoned' = abandoned \cup {environment}
                 /\ workbooks' = workbooks
                 /\ pc' = "append"
    /\ UNCHANGED <<date_folders, envIdx, dirExists, anyDir, dateIdx,
                   all_environment_data, attempt, called,
                   processed_environments, result>>

\* time.sleep(2), then the next iteration of `for attempt in range(max_retries)`
Sleep ==
    /\ UNCHANGED <<mergeVars, aggVars, hlVars, dateVars>>
    /\ pc = "sleep"
    /\ writeLog' = Append(writeLog, "sleep2")
    /\ attempt' = attempt + 1
    /\ pc' = "write"
    /\ UNCHANGED <<date_folders, envIdx, dirExists, anyDir, dateIdx,
                   all_environment_data, called, workbooks, abandoned,
                   processed_environments, result>>

\* line 362, after create_consolidated_workbook has returned
AppendProcessed ==
    /\ UNCHANGED <<mergeVars, aggVars, hlVars, dateVars>>
    /\ pc = "append"
    /\ processed_environments' = Append(processed_environments, environment)
    /\ NextEnvironment(Append(processed_environments, environment))
    /\ UNCHANGED <<date_folders, dirExists, anyDir, dateIdx,
                   all_environment_data, attempt, writeLog, called, workbooks,
                   abandoned>>

RunInit ==
    /\ pc = "start"
    /\ date_folders \in DateFolderLists
    /\ envIdx = 1
    /\ dirExists = <<>>
    /\ anyDir = [e \in Range(environments) |-> "unknown"]
    /\ dateIdx = 1
    /\ all_environment_data = <<>>
    /\ attempt = 0
    /\ writeLog = <<>>
    /\ called = {}
    /\ workbooks = {}
    /\ abandoned = {}
    /\ processed_environments = <<>>
    /\ result = "running"

\* the variables of the other specifications, at rest
MergeIdle ==
    /\ mpc = "idle"
    /\ dataframes = <<>>
    /\ merged_df = <<>>
    /\ prev_df = <<>>
    /\ step = 0

AggIdle ==
    /\ merged_tables = <<>>
    /\ date_sheets_data = <<>>
    /\ combined_data = <<>>

DateIdle ==
    /\ gpc = "idle"
    /\ base_path = <<>>
    /\ itemIdx = 1
    /\ found = <<>>

HlIdle ==
    /\ hpc = "idle"
    /\ hl_df = <<>>
    /\ hl_input = <<>>
    /\ hl_env = ""
    /\ highlight_columns = <<>>
    /\ marked = {}

Init == RunInit /\ MergeIdle /\ AggIdle /\ HlIdle /\ DateIdle

Next ==
    \/ Start
    \/ EnvCheck
    \/ ReadDate
    \/ WriteAttempt
    \/ Sleep
    \/ AppendProcessed

Spec == Init /\ [][Next]_vars

(***************************************************************************)
(* read_and_merge_excel_files on concrete tables (specification SpecMerge) *)
(***************************************************************************)
CPU == "Current CPUUtilization (%)"

CPU_dup_1 == "Current CPUUtilization (%)_dup_1"

Mem == "Current Database Memory Usage (%)"

\* the column layouts of the files read
RawColumns ==
    { <<"InstanceId", CPU>>,
      <<"InstanceId", CPU, CPU_dup_1>>,
      <<"InstanceId", "Identifier">>,
      <<"Identifier", Mem>>,
      <<CPU, "Date_Folder">> }

KeyValues == {1, 2}

IsIdentifier(name) == name \in Range(IdentifierColumns)

\* how many of cols[1..c] are identifier columns
IdRank(cols, c) == Cardinality({j \in 1..c : IsIdentifier(cols[j])})

\* pd.read_excel(file) for the t-th file: identifier cells are the keys
\* given, every other cell of row r holds the value 10 * t + r
RawTable(cols, keyRows, t) ==
    [cols |-> cols,
     rows |-> [r \in 1..Len(keyRows) |->
                  [c \in 1..Len(cols) |->
                      IF IsIdentifier(cols[c])
                      THEN keyRows[r][IdRank(cols, c)]
                      ELSE 10 * t + r]]]

\* the value written into Date_Report: the folder label, as mmddyyyy
LabelCode(x) == x[1] * 1000000 + x[2] * 10000 + x[3]

EnvCode(e) == CHOOSE i \in 1..Len(environments) : environments[i] = e

\* lines 107-115: read, tag with the three source columns, clean
LoadFile(raw, t, date_folder, env) ==
    clean_dataframe(
        SetColumn(SetColumn(SetColumn(raw, "Source_File", t),
                            "Date_Report", LabelCode(date_folder)),
                  "Environment", EnvCode(env)))

\* the keys of one row of a file: the first identifier column takes any key
\* value, a further identifier column holds 1
KeyRowsFor(cols) ==
    {[j \in 1..IdRank(cols, Len(cols)) |-> IF j = 1 THEN k ELSE 1] : k \in KeyValues}

\* the size of the files read so far: their rows, an empty file counting as one
TotalRows(dfs) ==
    SumSeq([i \in 1..Len(dfs) |-> IF NRows(dfs[i]) = 0 THEN 1 ELSE NRows(dfs[i])])

mergeDate == DateUniverse[1]

mergeEnv == "Production"

\* one iteration of the file loop that reads a file; an iteration whose
\* pd.read_excel raises leaves dataframes as it is
ReadFile ==
    /\ mpc = "reading"
    /\ Len(dataframes) < MaxMergeFiles
    /\ \E cols \in RawColumns :
         \E n \in 0..(MaxTotalRows - TotalRows(dataframes)) :
           \E keyRows \in [1..n -> KeyRowsFor(cols)] :
             /\ TotalRows(dataframes) < MaxTotalRows
             /\ dataframes' =
                  Append(dataframes,
                         LoadFile(RawTable(cols, keyRows, Len(dataframes) + 1),
                                  Len(dataframes) + 1, mergeDate, mergeEnv))
    /\ UNCHANGED <<mpc, merged_df, prev_df, step>>
    /\ UNCHANGED <<runVars, aggVars, hlVars, dateVars>>

\* lines 122-129 and 54-58: nothing read, one table, or the merge starts
FinishReading ==
    /\ mpc = "reading"
    /\ IF Len(dataframes) = 0
       THEN /\ merged_df' = EmptyTable
            /\ mpc' = "done"
       ELSE IF Len(dataframes) = 1
       THEN /\ merged_df' = dataframes[1]
            /\ mpc' = "done"
       ELSE /\ merged_df' = dataframes[1]
            /\ mpc' = "merging"
    /\ step' = 1
    /\ UNCHANGED <<dataframes, prev_df>>
    /\ UNCHANGED <<runVars, aggVars, hlVars, dateVars>>

\* lines 61-83: iteration i = step of the loop, df = dataframes[i] (0-based).
\* When the suffix makes a column name the result already has, pd.merge
\* raises MergeError in some pandas versions and returns the duplicated
\* names in others.
MergeStep ==
    /\ mpc = "merging"
    /\ step < Len(dataframes)
    /\ LET df == dataframes[step + 1]
           key == common_cols(merged_df, df)
       IN  \E raises \in (IF key # <<>>
                             /\ SuffixClash(merged_df, df, key[1], DupSuffix(step))
                          THEN BOOLEAN ELSE {FALSE}) :
             IF raises
             THEN /\ mpc' = "raised"
                  /\ UNCHANGED <<merged_df, prev_df, step>>
             ELSE /\ merged_df' = MergeOneStep(merged_df, df, step)
                  /\ prev_df' = merged_df
                  /\ step' = step + 1
                  /\ mpc' = mpc
    /\ UNCHANGED dataframes
    /\ UNCHANGED <<runVars, aggVars, hlVars, dateVars>>

\* lines 85-88: after the loop
MergeFinish ==
    /\ mpc = "merging"
    /\ step = Len(dataframes)
    /\ merged_df' = RemoveDuplicateColumns(merged_df)
    /\ mpc' = "done"
    /\ UNCHANGED <<dataframes, prev_df, step>>
    /\ UNCHANGED <<runVars, aggVars, hlVars, dateVars>>

RunIdle ==
    /\ pc = "idle"
    /\ date_folders = <<>>
    /\ envIdx = 1
    /\ dirExists = <<>>
    /\ anyDir = <<>>
    /\ dateIdx = 1
    /\ all_environment_data = <<>>
    /\ attempt = 0
    /\ writeLog = <<>>
    /\ called = {}
    /\ workbooks = {}
    /\ abandoned = {}
    /\ processed_environments = <<>>
    /\ result = "idle"

InitMerge ==
    /\ RunIdle
    /\ AggIdle
    /\ HlIdle
    /\ DateIdle
    /\ mpc = "reading"
    /\ dataframes = <<>>
    /\ merged_df = EmptyTable
    /\ prev_df = EmptyTable
    /\ step = 0

NextMerge ==
    \/ ReadFile
    \/ FinishReading
    \/ MergeStep
    \/ MergeFinish

SpecMerge == InitMerge /\ [][NextMerge]_vars

(***************************************************************************)
(* Claims about the Horizontal Merger (specification SpecMerge)            *)
(***************************************************************************)

\* C6: whatever tables are read, the table the merger returns has no two
\* columns of the same name.
C6_NoDuplicateColumns == mpc = "done" => NoRepeat(merged_df.cols)

C6_Witness ==
    /\ mpc = "done"
    /\ Len(dataframes) = 2
    /\ HasCol(dataframes[1], "InstanceId") /\ HasCol(dataframes[1], CPU_dup_1)
    /\ HasCol(dataframes[2], "InstanceId") /\ HasCol(dataframes[2], CPU)
    /\ NRows(merged_df) > 0
    /\ HasCol(merged_df, CPU_dup_1)

\* some identifier column of the priority list is in every table read
SharedIdentifier(dfs) ==
    \E i \in 1..Len(IdentifierColumns) :
        \A t \in 1..Len(dfs) : HasCol(dfs[t], IdentifierColumns[i])

\* the first name of the priority list that every table has
SharedKey(dfs) ==
    LET hits == SelectSeq(IdentifierColumns,
                          LAMBDA col : \A t \in 1..Len(dfs) : HasCol(dfs[t], col))
    IN  hits[1]

\* key value -> number of rows of t holding it
KeyCounts(t, on) ==
    [k \in KeysOf(t, on) |->
        Cardinality({r \in 1..NRows(t) : t.rows[r][ColIndex(t, on)] = k})]

\* the key counts of an outer join: a key of both sides has the product of
\* its two counts, a key of one side keeps its count
OuterJoinCounts(a, b) ==
    [k \in DOMAIN a \cup DOMAIN b |->
        IF k \in DOMAIN a /\ k \in DOMAIN b THEN a[k] * b[k]
        ELSE IF k \in DOMAIN a THEN a[k] ELSE b[k]]

RECURSIVE SumOver(_, _)
SumOver(f, S) ==
    IF S = {} THEN 0
    ELSE LET x == CHOOSE y \in S : TRUE IN f[x] + SumOver(f, S \ {x})

OuterCard(left, right, on) ==
    LET c == OuterJoinCounts(KeyCounts(left, on), KeyCounts(right, on))
    IN  SumOver(c, DOMAIN c)

RECURSIVE SuccessiveCounts(_, _, _)
SuccessiveCounts(dfs, on, n) ==
    IF n = 1 THEN KeyCounts(dfs[1], on)
    ELSE OuterJoinCounts(SuccessiveCounts(dfs, on, n - 1), KeyCounts(dfs[n], on))

\* C7 as stated: when all tables share an identifier column, the merger's
\* row count is the cardinality of the successive outer joins on that column.
C7_CardinalityOnSharedKey ==
    (mpc = "done" /\ Len(dataframes) >= 1 /\ SharedIdentifier(dataframes)) =>
        LET c == SuccessiveCounts(dataframes, SharedKey(dataframes), Len(dataframes))
        IN  NRows(merged_df) = SumOver(c, DOMAIN c)

\* C7 amended: when all tables share an identifier column, every merge step
\* is an outer join on the key selected for that step (the first name of the
\* priority list that the accumulator and the incoming table both have):
\* the row count after the step is the outer-join cardinality for that key
\* (matching keys multiply, keys of one side are kept), every key value of
\* either side is retained, and the result has at least as many rows as the
\* largest table merged so far.
C7_OuterJoinCardinality ==
    /\ (mpc = "done" /\ Len(dataframes) = 1) =>
           NRows(merged_df) = NRows(dataframes[1])
    /\ (mpc \in {"merging", "done"} /\ step >= 2 /\ SharedIdentifier(dataframes)) =>
           LET df == dataframes[step]
               key == common_cols(prev_df, df)
           IN  /\ key # <<>>
               /\ NRows(merged_df) = OuterCard(prev_df, df, key[1])
               /\ KeysOf(merged_df, key[1]) = KeysOf(prev_df, key[1]) \cup KeysOf(df, key[1])
               /\ \A t \in 1..step : NRows(merged_df) >= NRows(dataframes[t])

C7_Witness ==
    /\ mpc = "done"
    /\ Len(dataframes) = 2
    /\ SharedIdentifier(dataframes)
    /\ NRows(dataframes[1]) = 2
    /\ NRows(dataframes[2]) = 2
    /\ NRows(merged_df) = 4

\* the column names of all the tables read
InputColumnNames(dfs) == UNION {Range(dfs[t].cols) : t \in 1..Len(dfs)}

\* the names of the t-th table read (t >= 2) followed by the suffix of the
\* step that merges it, '_dup_1' for the second table
SuffixedColumnNames(dfs) ==
    UNION {{dfs[t].cols[c] \o "_dup_" \o ToString(t - 1) : c \in 1..NCols(dfs[t])} :
              t \in 2..Len(dfs)}

\* C12 as stated: every column name of the merger's output is a column name
\* of some input table.
C12_ColumnsSubsetOfInputs ==
    mpc = "done" => Range(merged_df.cols) \subseteq InputColumnNames(dataframes)

\* C12 amended: every column name of the merger's output is a column name
\* of some input table, or a column name of the t-th input table (t >= 2)
\* followed by the suffix '_dup_<t-1>' of the step that merged that table;
\* the accumulator at every step obeys the same for the tables merged so far.
C12_ColumnsFromInputsOrSuffixed ==
    (mpc \in {"merging", "done"}) =>
        LET seen == SubSeq(dataframes, 1,
                           IF step > Len(dataframes) THEN Len(dataframes) ELSE step)
        IN  Range(merged_df.cols) \subseteq
                InputColumnNames(seen) \cup SuffixedColumnNames(seen)

C12_Witness ==
    /\ mpc = "done"
    /\ Len(dataframes) = 3
    /\ HasCol(merged_df, "Date_Report" \o "_dup_1")
    /\ HasCol(merged_df, "Environment" \o "_dup_2")
    /\ ~("Date_Report" \o "_dup_1" \in InputColumnNames(dataframes))
    /\ NRows(merged_df) > 0

\* the names, other than the join key, that the accumulator and the
\* incoming table both have
SharedNames(acc, df, key) == (Range(acc.cols) \cap Range(df.cols)) \ {key}

\* the cells of a result row that lie under the accumulator's columns
AccPart(acc, row) == SubSeq(row, 1, NCols(acc))

\* a result row of a key that only the incoming table has
IncomingOnly(acc, key, row) ==
    \A c \in 1..NCols(acc) : c # ColIndex(acc, key) => row[c] = NaN

\* C13 for the step that turned the accumulator acc into res by merging
\* the table df with the suffix '_dup_<i>'
RenamedNotOverwritten(acc, df, res, key, i) ==
    \A name \in SharedNames(acc, df, key) :
        LET renamed == name \o "_dup_" \o ToString(i)
        IN  /\ AccPart(acc, res.cols) = acc.cols
            /\ \A r \in 1..NRows(acc) :
                   \E q \in 1..NRows(res) : AccPart(acc, res.rows[q]) = acc.rows[r]
            /\ \A q \in 1..NRows(res) :
                   \/ \E r \in 1..NRows(acc) : AccPart(acc, res.rows[q]) = acc.rows[r]
                   \/ IncomingOnly(acc, key, res.rows[q])
            /\ HasCol(res, renamed)
            /\ \A r \in 1..NRows(df) :
                   \E q \in 1..NRows(res) :
                       /\ res.rows[q][ColIndex(res, key)] = df.rows[r][ColIndex(df, key)]
                       /\ res.rows[q][ColIndex(res, renamed)] = df.rows[r][ColIndex(df, name)]

\* C13: in a keyed merge step i, for every column name other than the join
\* key that the accumulator and the incoming table both have, the step
\* yields a result in which the accumulator's column keeps its name and its
\* values on every row that came from the accumulator, and the column named
\* '<name>_dup_<i>' holds the incoming table's values.
C13_IncomingRenamedNotOverwritten ==
    /\ mpc = "raised" =>
           LET df == dataframes[step + 1]
               key == common_cols(merged_df, df)
           IN  key # <<>> => SharedNames(merged_df, df, key[1]) = {}
    /\ (mpc = "merging" /\ step >= 2) =>
           LET df == dataframes[step]
               key == common_cols(prev_df, df)
           IN  key # <<>> =>
                   RenamedNotOverwritten(prev_df, df, merged_df, key[1], step - 1)

(***************************************************************************)
(* consolidate_environment_data on concrete tables (specification SpecAgg) *)
(***************************************************************************)
MaxAggRows == 2

\* merge_data_horizontally as a whole, for files whose merge does not raise
RECURSIVE MergeFrom(_, _, _)
MergeFrom(acc, dfs, i) ==
    IF i >= Len(dfs) THEN acc
    ELSE MergeFrom(MergeOneStep(acc, dfs[i + 1], i), dfs, i + 1)

merge_data_horizontally(dfs) ==
    IF dfs = <<>> THEN EmptyTable
    ELSE RemoveDuplicateColumns(MergeFrom(dfs[1], dfs, 1))

\* lines 122-131
MergeRead(dfs) ==
    IF dfs = <<>> THEN EmptyTable
    ELSE IF Len(dfs) = 1 THEN dfs[1]
    ELSE merge_data_horizontally(dfs)

AggColumns == { <<"InstanceId", CPU>>, <<"Identifier", Mem>> }

aggEnv == "Patikar"

\* what read_and_merge_excel_files can return for one date folder: no
\* directory or no file, one file, or two files with an InstanceId column
DateTables(date_folder) ==
    {EmptyTable}
    \cup {LoadFile(RawTable(cols, keyRows, 1), 1, date_folder, aggEnv) :
            cols \in AggColumns,
            keyRows \in UNION {[1..n -> KeyRowsFor(<<"InstanceId">>)] :
                                 n \in 0..MaxAggRows}}
    \cup {MergeRead(<<LoadFile(RawTable(<<"InstanceId", CPU>>, <<<<1>>>>, 1),
                               1, date_folder, aggEnv),
                      LoadFile(RawTable(<<"InstanceId", Mem>>, <<<<k>>>>, 2),
                               2, date_folder, aggEnv)>>) : k \in KeyValues}

\* column names of the tables in order of first appearance
RECURSIVE UnionColumns(_)
UnionColumns(tables) ==
    IF tables = <<>> THEN <<>>
    ELSE LET before == UnionColumns(SubSeq(tables, 1, Len(tables) - 1))
             last == tables[Len(tables)]
         IN  before \o SelectSeq(last.cols,
                                 LAMBDA c : \A j \in 1..Len(before) : before[j] # c)

\* pd.concat(tables, ignore_index=True, sort=False)
pd_concat(tables) ==
    LET columns == UnionColumns(tables)
        widen(t, row) ==
            [c \in 1..Len(columns) |->
                IF HasCol(t, columns[c]) THEN row[ColIndex(t, columns[c])] ELSE NaN]
    IN  [cols |-> columns,
         rows |-> ConcatAll([i \in 1..Len(tables) |->
                                [r \in 1..NRows(tables[i]) |->
                                    widen(tables[i], tables[i].rows[r])]])]

\* rows in descending order of column `by`, rows of equal value in their
\* earlier order
RECURSIVE SortedDescRows(_, _)
SortedDescRows(rows, k) ==
    IF rows = <<>> THEN <<>>
    ELSE LET rest == SortedDescRows(Tail(rows), k)
             row == Head(rows)
             ahead == SelectSeq(rest, LAMBDA x : x[k] > row[k])
             behind == SelectSeq(rest, LAMBDA x : x[k] <= row[k])
         IN  ahead \o <<row>> \o behind

RECURSIVE SortedAscRows(_, _)
SortedAscRows(rows, k) ==
    IF rows = <<>> THEN <<>>
    ELSE LET rest == SortedAscRows(Tail(rows), k)
             row == Head(rows)
             ahead == SelectSeq(rest, LAMBDA x : x[k] < row[k])
             behind == SelectSeq(rest, LAMBDA x : x[k] >= row[k])
         IN  ahead \o <<row>> \o behind

sort_values_ascending(t, by) ==
    [cols |-> t.cols, rows |-> SortedAscRows(t.rows, ColIndex(t, by))]

\* combined_data.sort_values(by, ascending=False)
sort_values(t, by) ==
    [cols |-> t.cols, rows |-> SortedDescRows(t.rows, ColIndex(t, by))]

\* lines 242-252: one iteration of the date loop
AggReadDate ==
    /\ pc = "agg_read"
    /\ LET date_folder == date_folders[dateIdx]
       IN  \E date_data \in DateTables(date_folder) :
             LET tagged == SetColumn(date_data, "Parsed_Date", strptime(date_folder))
             IN  /\ merged_tables' = Append(merged_tables, <<date_folder, date_data>>)
                 /\ IF ~IsEmptyDf(date_data)
                    THEN /\ all_environment_data' = Append(all_environment_data, tagged)
                         /\ date_sheets_data' =
                                Append(date_sheets_data, <<date_folder, tagged>>)
                    ELSE UNCHANGED <<all_environment_data, date_sheets_data>>
    /\ IF dateIdx < Len(date_folders)
       THEN /\ dateIdx' = dateIdx + 1
            /\ pc' = pc
       ELSE /\ dateIdx' = dateIdx
            /\ pc' = "agg_concat"
    /\ UNCHANGED <<date_folders, result, combined_data>>
    /\ UNCHANGED <<runRest, mergeVars, hlVars, dateVars>>

\* lines 254-268
AggFinish ==
    /\ pc = "agg_concat"
    /\ IF all_environment_data = <<>>
       THEN /\ result' = None
            /\ combined_data' = combined_data
       ELSE /\ combined_data' = sort_values(pd_concat(all_environment_data), "Parsed_Date")
            /\ result' = <<DropColumns(combined_data', {"Parsed_Date"}), date_sheets_data>>
    /\ pc' = "agg_done"
    /\ UNCHANGED <<date_folders, dateIdx, all_environment_data, merged_tables,
                   date_sheets_data>>
    /\ UNCHANGED <<runRest, mergeVars, hlVars, dateVars>>

InitAgg ==
    /\ pc = "agg_read"
    /\ date_folders \in DateFolderLists \ {<<>>}
    /\ dateIdx = 1
    /\ all_environment_data = <<>>
    /\ result = "running"
    /\ envIdx = 1
    /\ dirExists = <<>>
    /\ anyDir = <<>>
    /\ attempt = 0
    /\ writeLog = <<>>
    /\ called = {}
    /\ workbooks = {}
    /\ abandoned = {}
    /\ processed_environments = <<>>
    /\ merged_tables = <<>>
    /\ date_sheets_data = <<>>
    /\ combined_data = EmptyTable
    /\ MergeIdle
    /\ HlIdle
    /\ DateIdle

NextAgg ==
    \/ AggReadDate
    \/ AggFinish

SpecAgg == InitAgg /\ [][NextAgg]_vars

(***************************************************************************)
(* Claims about the Vertical Aggregator (specification SpecAgg)            *)
(***************************************************************************)

\* C5: the History Table has as many rows as the per-date Merged Tables
\* together, each date contributing the rows of its table, and its rows are
\* in non-increasing order of report date.
C5_HistoryTable ==
    (pc = "agg_done" /\ result # None) =>
        LET history == result[1]
            dated == combined_data
            d == ColIndex(dated, "Parsed_Date")
        IN  /\ NRows(history) =
                   SumSeq([i \in 1..Len(merged_tables) |-> NRows(merged_tables[i][2])])
            /\ NRows(dated) = NRows(history)
            /\ \A i \in 1..Len(merged_tables) :
                   Cardinality({r \in 1..NRows(dated) :
                                   dated.rows[r][d] = strptime(merged_tables[i][1])})
                       = NRows(merged_tables[i][2])
            /\ \A r \in 1..(NRows(dated) - 1) :
                   dated.rows[r][d] >= dated.rows[r + 1][d]
            /\ ~HasCol(history, "Parsed_Date")

C5_Witness ==
    /\ pc = "agg_done"
    /\ result # None
    /\ Len(result[2]) = 2
    /\ NRows(result[2][1][2]) = 2
    /\ NRows(result[2][2][2]) = 1
    /\ NRows(result[1]) = 3
    /\ result[2][1][2].cols # result[2][2][2].cols

\* C10: the per-date tables consolidate_environment_data returns are the
\* Merged Tables as read_and_merge_excel_files produced them: same columns,
\* same rows, no column added by the aggregation.
C10_DateTablesUnmodified ==
    (pc = "agg_done" /\ result # None) =>
        \A i \in 1..Len(result[2]) :
            /\ ~HasCol(result[2][i][2], "Parsed_Date")
            /\ \E j \in 1..Len(merged_tables) :
                   /\ merged_tables[j][1] = result[2][i][1]
                   /\ merged_tables[j][2] = result[2][i][2]

(***************************************************************************)
(* find_columns_to_highlight and apply_conditional_formatting              *)
(* (specification SpecHl).  Here a cell is [kind, val]: a number ("num",   *)
(* val in hundredths), a text that is a number followed by a percent sign  *)
(* ("pct"), any other text ("text") or an empty cell ("empty").            *)
(***************************************************************************)
MaxFiller == 27

CPU30 == "95p CPUUtilization (%) - 30 days"

CPU24 == "95p CPUUtilization (%) - 24 hours"

EngineCPU == "Current Engine CPUUtilization (%)"

Broker1 == "Broker 1 CpuUser (%) - Max Over 1 day"

MaxCPU == "Max CPU (%)"

CPU_dup_2 == "Current CPUUtilization (%)_dup_2"

\* lines 138-185: environment_columns.get(environment, [])
environment_columns(env) ==
    CASE env = "Batalan" -> <<CPU30, CPU24, CPU>>
      [] env = "Patikar" -> <<CPU30, CPU24, CPU>>
      [] env = "Production" ->
            <<CPU30, CPU24, CPU,
              "95p CPUUtilization (%) - 30 days_dup_1",
              "95p CPUUtilization (%) - 24 hours_dup_1",
              CPU_dup_1,
              "Max Engine CPUUtilization (%) - 30 days",
              "Max Engine CPUUtilization (%) - 24 hours",
              Broker1,
              "Broker 1 CpuSystem (%) - Max Over 1 day",
              "Broker 1 MemoryUsed (GB) - Max Over 1 day",
              "Broker 2 CpuUser (%) - Max Over 1 day",
              "Broker 2 CpuSystem (%) - Max Over 1 day",
              "Broker 2 MemoryUsed (GB) - Max Over 1 day",
              "Broker 3 CpuUser (%) - Max Over 1 day",
              "Broker 3 CpuSystem (%) - Max Over 1 day",
              "Broker 3 MemoryUsed (GB) - Max Over 1 day">>
      [] env = "Shared_services" ->
            <<CPU30, CPU24, CPU,
              "95p CPUUtilization (%) - 30 days_dup_1",
              "95p CPUUtilization (%) - 24 hours_dup_1",
              CPU_dup_1,
              "Maximum Database Memory Usage (%) - 30 days",
              "Maximum Database Memory Usage (%) - 24 hours",
              Mem,
              "Max Engine CPUUtilization (%) - 30 days",
              "Max Engine CPUUtilization (%) - 24 hours",
              EngineCPU>>
      [] OTHER -> <<>>

find_columns_to_highlight_AnyEnv(df, env) ==
    SelectSeq(environment_columns("Shared_services"), LAMBDA col : HasCol(df, col))

\* lines 185-192
find_columns_to_highlight(df, env) ==
    SelectSeq(environment_columns(env), LAMBDA col : HasCol(df, col))

\* lines 212-214: col_indices[col_name] = idx, 0-based, a later column of
\* the same name replacing an earlier one
col_indices(df, col_name) ==
    (CHOOSE i \in 1..NCols(df) :
        df.cols[i] = col_name /\ \A j \in (i + 1)..NCols(df) : df.cols[j] # col_name) - 1

chr_A == 65

chr_Z == 90

NoColumn == -1

\* the 0-based sheet column that the one-character text chr(code) names in a
\* formula: A..Z name columns 0..25, another character names no column
LetterColumn(code) ==
    IF code >= chr_A /\ code <= chr_Z THEN code - chr_A ELSE NoColumn

\* line 225: col_letter = chr(65 + col_idx)
col_letter(col_idx) == chr_A + col_idx

HighlightMin == 0

HighlightMax == 1400

\* ISNUMBER(x): the cell holds a number (not a text, not an empty cell)
ISNUMBER(cell) == cell.kind = "num"

\* line 231, evaluated for data row r (0-based sheet row r, the header being
\* row 0) of the range of column col_idx: the reference <letter>2 is
\* relative to the first cell of the range, so it reads row r of the column
\* the letter names
FormulaHolds(df, r, col_idx) ==
    LET ref == LetterColumn(col_letter(col_idx))
    IN  /\ ref # NoColumn
        /\ ref < NCols(df)
        /\ ISNUMBER(df.rows[r][ref + 1])
        /\ df.rows[r][ref + 1].val >= HighlightMin
        /\ df.rows[r][ref + 1].val <= HighlightMax

\* lines 216-234: the cells <<row, column>> (0-based column) shown highlighted
FormattedCells(df, columns) ==
    {<<r, col_indices(df, columns[i])>> : r \in 1..NRows(df), i \in 1..Len(columns)}
    \cap {<<r, c>> \in (1..NRows(df)) \X (0..(NCols(df) - 1)) : FormulaHolds(df, r, c)}

\* the whole of apply_conditional_formatting for the sheet df was written to
ApplyConditionalFormatting ==
    /\ hpc = "written"
    /\ highlight_columns' = find_columns_to_highlight(hl_df, hl_env)
    /\ marked' = IF highlight_columns' = <<>> THEN {}
                 ELSE FormattedCells(hl_df, highlight_columns')
    /\ hpc' = "formatted"
    /\ UNCHANGED <<hl_df, hl_input, hl_env>>
    /\ UNCHANGED <<runVars, mergeVars, aggVars, dateVars>>

Num(v) == [kind |-> "num", val |-> v]

TextCell == [kind |-> "text", val |-> 0]

\* the values of the cells of the metric columns
CellUniverse ==
    { Num(-1), Num(0), Num(700), Num(1400), Num(1401),
      [kind |-> "pct", val |-> 700],
      TextCell,
      [kind |-> "empty", val |-> 0] }

\* the columns of a sheet after its leading columns
CoreLayouts ==
    { <<CPU>>,
      <<CPU, CPU_dup_1>>,
      <<MaxCPU, EngineCPU>>,
      <<"InstanceId", Broker1>>,
      <<CPU_dup_2>> }

\* a table of k leading text columns followed by the columns `core`; every
\* cell of the core columns of row r holds vals[r]
Sheet(k, core, vals) ==
    [cols |-> [c \in 1..(k + Len(core)) |->
                  IF c <= k THEN "Column " \o ToString(c) ELSE core[c - k]],
     rows |-> [r \in 1..Len(vals) |->
                  [c \in 1..(k + Len(core)) |-> IF c <= k THEN TextCell ELSE vals[r]]]]

HlSheets ==
    {Sheet(k, core, vals) :
        k \in 0..MaxFiller, core \in CoreLayouts,
        vals \in [1..1 -> CellUniverse] \cup [1..2 -> CellUniverse]}

HlEnvironments == Range(environments) \cup {"Staging"}

InitHl ==
    /\ RunIdle
    /\ MergeIdle
    /\ AggIdle
    /\ DateIdle
    /\ hpc = "written"
    /\ hl_df \in HlSheets
    /\ hl_input = hl_df
    /\ hl_env \in HlEnvironments
    /\ highlight_columns = <<>>
    /\ marked = {}

NextHl == ApplyConditionalFormatting

SpecHl == InitHl /\ [][NextHl]_vars

(***************************************************************************)
(* Claims about highlighting (specification SpecHl)                        *)
(***************************************************************************)

\* C8: in every sheet, for every column of its Highlight Column Set,
\* wherever the column stands, and every data row, the cell is marked if
\* and only if its value, after stripping an optional trailing percent
\* sign, is a number from 0 to 14 inclusive.
C8_MarkedIffInRange ==
    hpc = "formatted" =>
        LET columns == find_columns_to_highlight(hl_df, hl_env)
        IN  \A i \in 1..Len(columns) : \A r \in 1..NRows(hl_df) :
                LET c == ColIndex(hl_df, columns[i])
                    cell == hl_df.rows[r][c]
                IN  (<<r, c - 1>> \in marked) <=>
                        /\ cell.kind \in {"num", "pct"}
                        /\ cell.val >= 0
                        /\ cell.val <= 1400

\* C9: find_columns_to_highlight returns exactly the columns that are in the
\* environment's fixed list and in the table: a column outside the list is
\* never returned, an unknown environment gives the empty list, and the
\* table is left as it was.
C9_AllowlistOnly ==
    hpc = "formatted" =>
        /\ \A c \in Range(hl_input.cols) \cup Range(highlight_columns) :
               c \in Range(highlight_columns) <=>
                   (HasCol(hl_input, c) /\ c \in Range(environment_columns(hl_env)))
        /\ (hl_env = "Shared_services" /\ HasCol(hl_input, EngineCPU)) =>
               EngineCPU \in Range(highlight_columns)
        /\ (hl_env \in {"Patikar", "Batalan"}) =>
               Range(highlight_columns) \subseteq {CPU30, CPU24, CPU}
        /\ MaxCPU \notin Range(highlight_columns)
        /\ CPU_dup_2 \notin Range(highlight_columns)
        /\ hl_env \notin Range(environments) => highlight_columns = <<>>
        /\ NoRepeat(highlight_columns)
        /\ hl_df = hl_input

C9_Witness ==
    /\ hpc = "formatted"
    /\ hl_env = "Shared_services"
    /\ HasCol(hl_df, MaxCPU)
    /\ highlight_columns = <<EngineCPU>>

(***************************************************************************)
(* Claims about process_all_environments (specification Spec)              *)
(***************************************************************************)

\* C1: the list process_all_environments returns holds only environments
\* whose workbook was written: an environment with no data on any date, or
\* whose write was abandoned, is absent from it.
C1_OnlyProduced ==
    (pc = "returned" /\ result # None) =>
        \A i \in 1..Len(result) : result[i] \in workbooks

\* C2: no failure while handling an environment or a date aborts the run:
\* the run never ends by an exception leaving process_all_environments.
C2_NeverAborts == pc # "raised"

WriteOutcomes == {"ok", "PermissionError", "Exception"}

AttemptsIn(log) == Cardinality({i \in 1..Len(log) : log[i] \in WriteOutcomes})

\* C3: per environment at most 3 write attempts; an attempt after the first
\* follows a PermissionError and then the 2-second sleep; a success (or any
\* other failure) ends the loop; after the third PermissionError the
\* environment is given up, no workbook is recorded for it, and the run goes
\* on to the statement after create_consolidated_workbook.
C3_BoundedRetry ==
    pc \in {"write", "sleep", "append"} =>
        /\ AttemptsIn(writeLog) <= 3
        /\ \A i \in 1..Len(writeLog) :
             /\ (writeLog[i] \in WriteOutcomes /\ i > 1) =>
                    /\ i > 2
                    /\ writeLog[i - 1] = "sleep2"
                    /\ writeLog[i - 2] = "PermissionError"
             /\ writeLog[i] = "sleep2" =>
                    (i > 1 /\ writeLog[i - 1] = "PermissionError")
             /\ writeLog[i] \in {"ok", "Exception"} => i = Len(writeLog)
        /\ (writeLog # <<>> /\ writeLog[Len(writeLog)] = "ok") =>
               (pc = "append" /\ environment \in workbooks)
        /\ (AttemptsIn(writeLog) = 3 /\ writeLog[Len(writeLog)] = "PermissionError") =>
               /\ pc = "append"
               /\ environment \in abandoned
               /\ environment \notin workbooks
        /\ pc = "write" => AttemptsIn(writeLog) = attempt
        /\ pc = "sleep" => writeLog[Len(writeLog)] = "PermissionError"

C3_Witness ==
    /\ pc = "append"
    /\ envIdx < Len(environments)
    /\ writeLog = <<"PermissionError", "sleep2", "PermissionError", "sleep2",
                    "PermissionError">>

\* C4: an environment that no discovered date folder has a directory for is
\* never handed to create_consolidated_workbook, gets no workbook, and is
\* absent from the processed list and from the returned list.
C4_MissingEnvSkipped ==
    \A e \in Range(environments) :
        anyDir[e] = "no" =>
            /\ e \notin called
            /\ e \notin workbooks
            /\ e \notin Range(processed_environments)
            /\ (pc = "returned" /\ result # None) => e \notin Range(result)

C4_Witness ==
    /\ pc = "returned"
    /\ result # None
    /\ anyDir["Batalan"] = "no"
    /\ result = <<"Patikar", "Production">>



(***************************************************************************)
(* get_date_folders on concrete folder names (specification SpecDates).    *)
(* A name is the sequence of its characters.                               *)
(***************************************************************************)
MaxItems == 3

Chars_01_15_2025 == <<"0", "1", "-", "1", "5", "-", "2", "0", "2", "5">>

Chars_1_15_2025 == <<"1", "-", "1", "5", "-", "2", "0", "2", "5">>

Chars_2_10_2025 == <<"2", "-", "1", "0", "-", "2", "0", "2", "5">>

Chars_12_01_2024 == <<"1", "2", "-", "0", "1", "-", "2", "0", "2", "4">>

\* characters after the year
Chars_01_15_2025x == Chars_01_15_2025 \o <<"x">>

\* month and day out of range
Chars_13_45_2025 == <<"1", "3", "-", "4", "5", "-", "2", "0", "2", "5">>

\* a day the month does not have
Chars_02_30_2025 == <<"0", "2", "-", "3", "0", "-", "2", "0", "2", "5">>

Chars_2025_01_15 == <<"2", "0", "2", "5", "-", "0", "1", "-", "1", "5">>

Chars_logs == <<"l", "o", "g", "s">>

Consolidated_Reports ==
    <<"C", "o", "n", "s", "o", "l", "i", "d", "a", "t", "e", "d", "_",
      "R", "e", "p", "o", "r", "t", "s">>

FolderNames ==
    { Chars_01_15_2025, Chars_1_15_2025, Chars_2_10_2025, Chars_12_01_2024,
      Chars_01_15_2025x, Chars_13_45_2025, Chars_02_30_2025,
      Chars_2025_01_15, Chars_logs, Consolidated_Reports }

\* the entries of the base path: directories of every name, and a plain
\* file with the name of a date
DirEntries ==
    [name : FolderNames, isdir : {TRUE}]
    \cup {[name |-> Chars_01_15_2025, isdir |-> FALSE]}

\* os.listdir: the entries in arbitrary order, no name twice
Listings ==
    {s \in SeqsUpTo(DirEntries, MaxItems) :
        \A i, j \in 1..Len(s) : i # j => s[i].name # s[j].name}

Digits == {"0", "1", "2", "3", "4", "5", "6", "7", "8", "9"}

DigitValue(c) ==
    CASE c = "0" -> 0 [] c = "1" -> 1 [] c = "2" -> 2 [] c = "3" -> 3
      [] c = "4" -> 4 [] c = "5" -> 5 [] c = "6" -> 6 [] c = "7" -> 7
      [] c = "8" -> 8 [] c = "9" -> 9

\* s[i .. i+n-1] exists and is made of digits
DigitsAt(s, i, n) ==
    /\ i + n - 1 <= Len(s)
    /\ \A j \in i..(i + n - 1) : s[j] \in Digits

CharAt(s, i, c) == i <= Len(s) /\ s[i] = c

RECURSIVE NumberAt(_, _, _)
NumberAt(s, i, n) ==
    IF n = 0 THEN 0
    ELSE 10 * NumberAt(s, i, n - 1) + DigitValue(s[i + n - 1])

\* the pairs <<a, b>>: a digits, a hyphen, b digits, a hyphen, four digits
\* at the start of s
DateShapes(s) ==
    {ab \in (1..2) \X (1..2) :
        /\ DigitsAt(s, 1, ab[1])
        /\ CharAt(s, ab[1] + 1, "-")
        /\ DigitsAt(s, ab[1] + 2, ab[2])
        /\ CharAt(s, ab[1] + ab[2] + 2, "-")
        /\ DigitsAt(s, ab[1] + ab[2] + 3, 4)}

\* line 29: re.match(r'\d{1,2}-\d{1,2}-\d{4}', item), anchored at the start
\* of the name only
re_match(item) == DateShapes(item) # {}

\* the numbers <<month, day, year>> of a name re_match accepts
LabelNumbers(item) ==
    LET ab == CHOOSE x \in DateShapes(item) : TRUE
    IN  <<NumberAt(item, 1, ab[1]),
          NumberAt(item, ab[1] + 2, ab[2]),
          NumberAt(item, ab[1] + ab[2] + 3, 4)>>

IsLeap(y) == (y % 4 = 0 /\ y % 100 # 0) \/ y % 400 = 0

DaysInMonth(m, y) ==
    IF m = 2 THEN (IF IsLeap(y) THEN 29 ELSE 28)
    ELSE IF m \in {4, 6, 9, 11} THEN 30 ELSE 31

\* datetime.strptime(x, '%m-%d-%Y') raises ValueError: the name does not
\* match the format (%m is 1..12 and %d is 1..31, in one or two digits, %Y
\* is four digits), data remains after the year, or the date does not exist
strptime_raises(x) ==
    \/ ~re_match(x)
    \/ LET ab == CHOOSE s \in DateShapes(x) : TRUE
           n == LabelNumbers(x)
       IN  \/ n[1] \notin 1..12
           \/ n[2] \notin 1..31
           \/ Len(x) # ab[1] + ab[2] + 6
           \/ n[3] < 1
           \/ n[2] > DaysInMonth(n[1], n[3])

\* the sort key of line 36
DateKey(x) == strptime(LabelNumbers(x))

\* sorted(items, key=DateKey, reverse=True): stable, names of the same date
\* keep their order
RECURSIVE sorted_reverse(_)
sorted_reverse(items) ==
    IF items = <<>> THEN <<>>
    ELSE LET n == Len(items)
             rest == sorted_reverse(SubSeq(items, 1, n - 1))
             x == items[n]
             p == Cardinality({i \in 1..Len(rest) : DateKey(rest[i]) >= DateKey(x)})
         IN  SubSeq(rest, 1, p) \o <<x>> \o SubSeq(rest, p + 1, Len(rest))

\* lines 20-23: the base path does not exist, or the loop starts
CheckBasePath ==
    /\ gpc = "start"
    /\ IF base_path.exists THEN gpc' = "scanning" ELSE gpc' = "returned"
    /\ UNCHANGED <<base_path, itemIdx, found>>
    /\ UNCHANGED <<runVars, mergeVars, aggVars, hlVars>>

\* lines 25-30: one iteration of the loop over os.listdir
ScanItem ==
    /\ gpc = "scanning"
    /\ itemIdx <= Len(base_path.items)
    /\ LET item == base_path.items[itemIdx]
       IN  IF item.isdir /\ item.name # Consolidated_Reports /\ re_match(item.name)
           THEN found' = Append(found, item.name)
           ELSE found' = found
    /\ itemIdx' = itemIdx + 1
    /\ UNCHANGED <<gpc, base_path>>
    /\ UNCHANGED <<runVars, mergeVars, aggVars, hlVars>>

\* lines 32-36: nothing found, or the sort; sorted computes the key of every
\* name, and a ValueError of strptime leaves get_date_folders
SortAndReturn ==
    /\ gpc = "scanning"
    /\ itemIdx > Len(base_path.items)
    /\ IF found = <<>>
       THEN /\ gpc' = "returned"
            /\ found' = <<>>
       ELSE IF \E i \in 1..Len(found) : strptime_raises(found[i])
       THEN /\ gpc' = "raised"
            /\ found' = found
       ELSE /\ gpc' = "returned"
            /\ found' = sorted_reverse(found)
    /\ UNCHANGED <<base_path, itemIdx>>
    /\ UNCHANGED <<runVars, mergeVars, aggVars, hlVars>>

InitDates ==
    /\ RunIdle
    /\ MergeIdle
    /\ AggIdle
    /\ HlIdle
    /\ gpc = "start"
    /\ base_path \in [exists : {TRUE}, items : Listings]
                     \cup {[exists |-> FALSE, items |-> <<>>]}
    /\ itemIdx = 1
    /\ found = <<>>

NextDates ==
    \/ CheckBasePath
    \/ ScanItem
    \/ SortAndReturn

SpecDates == InitDates /\ [][NextDates]_vars

(***************************************************************************)
(* Claims about date-folder discovery (specification SpecDates)            *)
(***************************************************************************)

\* a name of the form month-day-year, hyphen-separated, 1-2 digit month,
\* 1-2 digit day, 4-digit year and nothing else, that names a calendar date
ValidDateLabel(s) ==
    \E a, b \in 1..2 :
        /\ Len(s) = a + b + 6
        /\ DigitsAt(s, 1, a) /\ s[a + 1] = "-"
        /\ DigitsAt(s, a + 2, b) /\ s[a + b + 2] = "-"
        /\ DigitsAt(s, a + b + 3, 4)
        /\ NumberAt(s, 1, a) \in 1..12
        /\ NumberAt(s, a + b + 3, 4) >= 1
        /\ NumberAt(s, a + 2, b) \in
               1..DaysInMonth(NumberAt(s, 1, a), NumberAt(s, a + b + 3, 4))

\* the names of the subdirectories of the base path that are valid labels
ValidFolders ==
    {base_path.items[i].name : i \in
        {j \in 1..Len(base_path.items) :
            /\ base_path.items[j].isdir
            /\ ValidDateLabel(base_path.items[j].name)}}

\* C11: a subdirectory whose name is not a valid date label never makes
\* discovery fail and never appears in the discovered list; the list holds
\* the valid labels among the subdirectories, in descending date order.
C11_InvalidNamesExcluded ==
    /\ gpc # "raised"
    /\ gpc = "returned" =>
          /\ Range(found) = ValidFolders
          /\ NoRepeat(found)
          /\ \A i \in 1..(Len(found) - 1) :
                 DateKey(found[i]) >= DateKey(found[i + 1])

====
